---- MODULE Spec2Model ----
(***************************************************************************)
(* Layout reconstruction engine of src/pdf/main_3.py: GeometryUtils,       *)
(* ColumnDetector.find_split_x and LayoutEngine (process_page,             *)
(* _cluster_vertical, _merge_items).                                       *)
(*                                                                         *)
(* A box is a tuple <<x0, y0, x1, y1>> (Python index k is TLA+ index k+1). *)
(* A text is a sequence of string pieces; str.join puts the separator      *)
(* piece between the joined texts.  A fragment is [text, box].  A Line or  *)
(* Block is [text, box, of], where "of" is a history field the program     *)
(* does not have: the list handed to _merge_items, in the order it had     *)
(* before _merge_items sorted it.                                          *)
(*                                                                         *)
(* Python floats are modelled exactly: a split is a rational <<n, d>>, the *)
(* average height is a pair <<sum, count>>, and every comparison is        *)
(* cross-multiplied.  None is the empty tuple.                             *)
(***************************************************************************)
EXTENDS Integers, Sequences, FiniteSets, TLC

VARIABLES pc, raw_items, page_width, page_height, split_x, lines,
          current_line, i, global_avg_h, blocks, current_block_lines, k,
          ret, boxes, fs_ret, items0

vars == <<pc, raw_items, page_width, page_height, split_x, lines,
          current_line, i, global_avg_h, blocks, current_block_lines, k,
          ret, boxes, fs_ret, items0>>

----------------------------------------------------------------------------
(* Bounds of the model *)

MaxItems == 3
MaxBoxes == 2

----------------------------------------------------------------------------
(* Program constants *)

bins == 400
buff == 5
None == <<>>

Max2(a, b) == IF a >= b THEN a ELSE b
Min2(a, b) == IF a <= b THEN a ELSE b
Abs(a) == IF a < 0 THEN 0 - a ELSE a

SeqMin(s) == CHOOSE m \in {s[j] : j \in 1..Len(s)} : \A j \in 1..Len(s) : m <= s[j]
SeqMax(s) == CHOOSE m \in {s[j] : j \in 1..Len(s)} : \A j \in 1..Len(s) : m >= s[j]

BoxesOf(items) == [j \in 1..Len(items) |-> items[j].box]

(* mutant: the right edge taken with min instead of max *)
merge_boxes_min_x1(bs) ==
    IF bs = <<>> THEN <<0, 0, 0, 0>>
    ELSE << SeqMin([j \in 1..Len(bs) |-> bs[j][1]]),
            SeqMin([j \in 1..Len(bs) |-> bs[j][2]]),
            SeqMin([j \in 1..Len(bs) |-> bs[j][3]]),
            SeqMax([j \in 1..Len(bs) |-> bs[j][4]]) >>

(* GeometryUtils.merge_boxes *)
merge_boxes(bs) ==
    IF bs = <<>> THEN <<0, 0, 0, 0>>
    ELSE << SeqMin([j \in 1..Len(bs) |-> bs[j][1]]),
            SeqMin([j \in 1..Len(bs) |-> bs[j][2]]),
            SeqMax([j \in 1..Len(bs) |-> bs[j][3]]),
            SeqMax([j \in 1..Len(bs) |-> bs[j][4]]) >>

----------------------------------------------------------------------------
(* ColumnDetector.find_split_x *)

(* |x| for which the double (x / 600) * 400 falls just below the exact      *)
(* integer 2x/3, so that int() returns one less (IEEE-754 round-to-nearest, *)
(* all |x| <= 600; beyond that every index is clamped away).                *)
FloatLow600 == {87, 171, 174, 339, 342, 345, 348}

(* int((x / page_width) * bins): truncation toward zero *)
BinOf(x, pw) ==
    LET q == (Abs(x) * bins) \div pw
        t == IF pw = 600 /\ Abs(x) \in FloatLow600 THEN q - 1 ELSE q
    IN  IF x >= 0 THEN t ELSE 0 - t

(* Filter A: box[1] < page_height * 0.15 *)
IsHeader(box, ph) == box[2] * 100 < ph * 15

(* Filter B: box[2] - box[0] > page_width * 0.85 *)
IsFullWidth(box, pw) == (box[3] - box[1]) * 100 > pw * 85

filtered_boxes(bs, pw, ph) ==
    SelectSeq(bs, LAMBDA box : ~IsHeader(box, ph) /\ ~IsFullWidth(box, pw))

(* mutant: no fallback to the original list *)
valid_boxes_no_fallback(bs, pw, ph) == filtered_boxes(bs, pw, ph)

(* the filtered list, or the original list when filtering removed everything *)
valid_boxes(bs, pw, ph) ==
    IF filtered_boxes(bs, pw, ph) = <<>> THEN bs ELSE filtered_boxes(bs, pw, ph)

(* the indices density_map[start:end] = 1 sets: a negative end counts from  *)
(* the end of the array, as numpy slicing does                              *)
SliceBins(start, end) ==
    LET e == IF end < 0 THEN Max2(0, end + bins) ELSE end
    IN  {b \in 0..(bins - 1) : start <= b /\ b < e}

(* the bins one box sets: density_map[start:end] = 1 with its start and end *)
marked_bins(box, pw) ==
    SliceBins(Max2(0, BinOf(box[1], pw)), Min2(bins, BinOf(box[3], pw)))

(* the set of bins with density_map[b] = 1 after the histogram loop *)
density_map(vb, pw) ==
    UNION { marked_bins(vb[j], pw) : j \in 1..Len(vb) }

search_start == (bins * 20) \div 100
search_end == (bins * 80) \div 100

(* the gap loop from index b on, with no gap open and gs the gaps appended *)
(* so far, each <<start, end>>: the loop opens a gap at the first free bin  *)
(* (current_gap_start) and closes it at the next occupied bin, or at        *)
(* search_end after the loop                                                *)
RECURSIVE GapScan(_, _, _)
GapScan(b, gs, occ) ==
    LET free == {f \in b..(search_end - 1) : f \notin occ}
    IN  IF free = {} THEN gs
        ELSE LET current_gap_start == CHOOSE f \in free : \A g \in free : f <= g
                 stops == {o \in current_gap_start..(search_end - 1) : o \in occ}
             IN  IF stops = {}
                 THEN Append(gs, <<current_gap_start, search_end>>)
                 ELSE LET stop == CHOOSE o \in stops : \A g \in stops : o <= g
                      IN  GapScan(stop, Append(gs, <<current_gap_start, stop>>), occ)

gaps(occ) == GapScan(search_start, <<>>, occ)

(* max(gaps, key=width): the first gap of the greatest width *)
widest_gap(gs) ==
    LET w(j) == gs[j][2] - gs[j][1]
        first == CHOOSE j \in 1..Len(gs) :
                    /\ \A m \in 1..Len(gs) : w(m) <= w(j)
                    /\ \A m \in 1..(j - 1) : w(m) < w(j)
    IN  gs[first]

(* mutant: >= in place of > *)
GapAccepted_ge(g) == (g[2] - g[1]) * 100 >= bins * 2

(* gap_width_bins > bins * 0.02 *)
GapAccepted(g) == (g[2] - g[1]) * 100 > bins * 2

(* ((gap_start + gap_width / 2) / bins) * page_width as the rational        *)
(* <<numerator, denominator>>                                               *)
SplitOf(g, pw) == << (2 * g[1] + (g[2] - g[1])) * pw, 2 * bins >>

find_split_x(bs, pw, ph) ==
    LET gs == gaps(density_map(valid_boxes(bs, pw, ph), pw))
    IN  IF gs = <<>> THEN None
        ELSE IF GapAccepted(widest_gap(gs)) THEN SplitOf(widest_gap(gs), pw)
             ELSE None

----------------------------------------------------------------------------
(* LayoutEngine *)

(* list.sort(key=lambda x: x['box'][c - 1]): the stable sort by box[c] *)
RECURSIVE InsertByKey(_, _, _)
InsertByKey(s, x, c) ==
    IF s = <<>> THEN <<x>>
    ELSE IF s[Len(s)].box[c] <= x.box[c] THEN Append(s, x)
         ELSE Append(InsertByKey(SubSeq(s, 1, Len(s) - 1), x, c), s[Len(s)])

RECURSIVE SortByKey(_, _)
SortByKey(s, c) ==
    IF s = <<>> THEN <<>>
    ELSE InsertByKey(SortByKey(SubSeq(s, 1, Len(s) - 1), c), s[Len(s)], c)

(* mutant: raw_items sorted by x0 instead of y0 *)
SortedItems_by_x0(items) == SortByKey(items, 1)

(* raw_items.sort(key=lambda x: x['box'][1]) *)
SortedItems(items) == SortByKey(items, 2)

(* join_char.join(texts) *)
RECURSIVE Join(_, _)
Join(texts, join_char) ==
    IF texts = <<>> THEN <<>>
    ELSE IF Len(texts) = 1 THEN texts[1]
         ELSE texts[1] \o <<join_char>> \o Join(Tail(texts), join_char)

TextsOf(items) == [j \in 1..Len(items) |-> items[j].text]

(* mutant: the items are joined as they come, not sorted *)
MergeOrder_unsorted(items) == items

(* the order in which _merge_items joins the texts: items.sort by box[0] *)
MergeOrder(items) == SortByKey(items, 1)

(* LayoutEngine._merge_items *)
merge_items(items, join_char) ==
    [ text |-> Join(TextsOf(MergeOrder(items)), join_char),
      box  |-> merge_boxes(BoxesOf(items)),
      of   |-> items ]

(* x < split + c  and  x > split + c  for a rational split <<n, d>> *)
LtSplit(x, sp, c) == x * sp[2] < sp[1] + c * sp[2]
GtSplit(x, sp, c) == x * sp[2] > sp[1] + c * sp[2]

(* "if split_x:" is false for None and for 0.0 *)
Truthy(sp) == sp # None /\ sp[1] # 0

(* overlap_ratio > 0.4, with overlap_ratio = 0 when min_h is not positive *)
OverlapOk(last, item) ==
    LET min_y == Max2(last.box[2], item.box[2])
        max_y == Min2(last.box[4], item.box[4])
        overlap_h == Max2(0, max_y - min_y)
        min_h == Min2(last.box[4] - last.box[2], item.box[4] - item.box[2])
    IN  min_h > 0 /\ overlap_h * 10 > 4 * min_h

(* h_gap < 50 *)
HGapOk(last, item) == item.box[1] - last.box[3] < 50

(* mutant: only the order "left fragment, then right fragment" is tested *)
LineCrossesBarrier_one_way(last, item, sp) ==
    /\ Truthy(sp)
    /\ LtSplit(last.box[3], sp, buff)
    /\ GtSplit(item.box[1], sp, 0 - buff)

(* the horizontal barrier check of process_page *)
LineCrossesBarrier(last, item, sp) ==
    /\ Truthy(sp)
    /\ LET is_left_last == LtSplit(last.box[3], sp, buff)
           is_right_item == GtSplit(item.box[1], sp, 0 - buff)
           is_right_last == GtSplit(last.box[1], sp, 0 - buff)
           is_left_item == LtSplit(item.box[3], sp, buff)
       IN  (is_left_last /\ is_right_item) \/ (is_right_last /\ is_left_item)

LineMerge(last, item, sp) ==
    OverlapOk(last, item) /\ HGapOk(last, item) /\ ~LineCrossesBarrier(last, item, sp)

(* one iteration of the line loop on st = [lines, current_line] *)
LineIter(st, item, sp) ==
    IF st.current_line = <<>>
    THEN [st EXCEPT !.current_line = <<item>>]
    ELSE IF LineMerge(st.current_line[Len(st.current_line)], item, sp)
         THEN [st EXCEPT !.current_line = Append(@, item)]
         ELSE [ lines |-> Append(st.lines, merge_items(st.current_line, " ")),
                current_line |-> <<item>> ]

(* mutant: the open line is not flushed after the loop *)
LineFlush_forgotten(st) == st.lines

(* "if current_line: lines.append(...)" after the line loop *)
LineFlush(st) ==
    IF st.current_line # <<>>
    THEN Append(st.lines, merge_items(st.current_line, " "))
    ELSE st.lines

(* global_avg_h as the rational <<sum of heights, count>>; 20 for no lines *)
RECURSIVE SumHeights(_)
SumHeights(ls) ==
    IF ls = <<>> THEN 0
    ELSE (ls[1].box[4] - ls[1].box[2]) + SumHeights(Tail(ls))

GlobalAvgH(ls) == IF ls # <<>> THEN <<SumHeights(ls), Len(ls)>> ELSE <<20, 1>>

(* mutant: the multiplier is 2.0 whatever the average height *)
IsClose_fixed_multiplier(last_line, line, avg) ==
    LET v_gap == line.box[2] - last_line.box[4]
        h_prev == last_line.box[4] - last_line.box[2]
        h_curr == line.box[4] - line.box[2]
        dominant_h == Max2(h_prev, h_curr)
    IN  2 * v_gap < Max2(dominant_h * 4, 10)

(* is_close: v_gap < max(dominant_h * multiplier, 5.0), doubled *)
IsClose(last_line, line, avg) ==
    LET v_gap == line.box[2] - last_line.box[4]
        h_prev == last_line.box[4] - last_line.box[2]
        h_curr == line.box[4] - line.box[2]
        dominant_h == Max2(h_prev, h_curr)
        multiplier2 == IF dominant_h * avg[2] < avg[1] THEN 3 ELSE 4
    IN  2 * v_gap < Max2(dominant_h * multiplier2, 10)

IsAligned(last_line, line) ==
    \/ Abs(line.box[1] - last_line.box[1]) < 80
    \/ Abs(line.box[3] - last_line.box[3]) < 80

(* center < split_x for center = x0 + (x1 - x0) / 2 *)
CenterLeft(box, sp) == (box[1] + box[3]) * sp[2] < 2 * sp[1]

(* mutant: the sides are those of the left edges, not of the centers *)
BlockCrossesBarrier_left_edge(block_lines, line, sp) ==
    /\ Truthy(sp)
    /\ LtSplit(merge_boxes(BoxesOf(block_lines))[1], sp, 0) # LtSplit(line.box[1], sp, 0)

(* the vertical barrier check of _cluster_vertical *)
BlockCrossesBarrier(block_lines, line, sp) ==
    /\ Truthy(sp)
    /\ CenterLeft(merge_boxes(BoxesOf(block_lines)), sp) # CenterLeft(line.box, sp)

BlockMerge(block_lines, line, sp, avg) ==
    /\ IsClose(block_lines[Len(block_lines)], line, avg)
    /\ IsAligned(block_lines[Len(block_lines)], line)
    /\ ~BlockCrossesBarrier(block_lines, line, sp)

NL == "\n"

(* one iteration of the block loop on st = [blocks, current_block_lines] *)
BlockIter(st, line, sp, avg) ==
    IF st.current_block_lines = <<>>
    THEN [st EXCEPT !.current_block_lines = <<line>>]
    ELSE IF BlockMerge(st.current_block_lines, line, sp, avg)
         THEN [st EXCEPT !.current_block_lines = Append(@, line)]
         ELSE [ blocks |-> Append(st.blocks, merge_items(st.current_block_lines, NL)),
                current_block_lines |-> <<line>> ]

BlockFlush(st) ==
    IF st.current_block_lines # <<>>
    THEN Append(st.blocks, merge_items(st.current_block_lines, NL))
    ELSE st.blocks

(* the line loop and the block loop as folds of their iterations *)
RECURSIVE LineLoop(_, _, _)
LineLoop(st, items, sp) ==
    IF items = <<>> THEN st
    ELSE LineLoop(LineIter(st, items[1], sp), Tail(items), sp)

RECURSIVE BlockLoop(_, _, _, _)
BlockLoop(st, ls, sp, avg) ==
    IF ls = <<>> THEN st
    ELSE BlockLoop(BlockIter(st, ls[1], sp, avg), Tail(ls), sp, avg)

(* LayoutEngine._cluster_vertical *)
cluster_vertical(ls, sp) ==
    IF ls = <<>> THEN <<>>
    ELSE BlockFlush(BlockLoop([blocks |-> <<>>, current_block_lines |-> <<>>],
                              SortByKey(ls, 2), sp, GlobalAvgH(SortByKey(ls, 2))))

(* the lines process_page forms from the fragments and the split *)
form_lines(items, sp) ==
    LineFlush(LineLoop([lines |-> <<>>, current_line |-> <<>>], SortedItems(items), sp))

(* LayoutEngine.process_page: the pair it returns *)
process_page(items, pw, ph) ==
    IF items = <<>> THEN [blocks |-> <<>>, split_x |-> None]
    ELSE LET sp == find_split_x(BoxesOf(items), pw, ph)
         IN  [blocks |-> cluster_vertical(form_lines(items, sp), sp), split_x |-> sp]

----------------------------------------------------------------------------
(* Inputs *)

Frag(t, b) == [text |-> <<t>>, box |-> b]

Pool ==
    { Frag("Name",   <<10, 10, 80, 25>>),
      Frag("Title",  <<10, 30, 90, 45>>),
      Frag("Skills", <<320, 10, 400, 25>>),
      Frag("Right",  <<320, 30, 400, 45>>),
      Frag("Wide",   <<20, 30, 580, 45>>),
      Frag("Banner", <<20, 10, 580, 25>>),
      Frag("Sub",    <<100, 28, 180, 43>>),
      Frag("Body",   <<5, 50, 95, 65>>),
      Frag("Rule",   <<10, 35, 90, 35>>),
      Frag("Rule2",  <<10, 38, 90, 38>>),
      Frag("Logo",   <<320, 50, 400, 90>>) }

(* boxes for direct calls of the detector: those of the pool, three that    *)
(* leave a run of exactly 8 or 9 free bins at bin 200, two that are just    *)
(* wider than 85% of the page, at its left and at its right edge, three     *)
(* that lie left of the page, across its left edge and right of it, one     *)
(* inside a single bin, and one whose right edge is in FloatLow600          *)
BoxPool ==
    {f.box : f \in Pool}
        \cup { <<0, 30, 300, 45>>, <<312, 30, 600, 45>>, <<314, 30, 600, 45>>,
               <<0, 30, 511, 45>>, <<89, 10, 600, 25>>,
               <<-60, 30, -30, 45>>, <<-30, 30, 40, 45>>, <<630, 30, 660, 45>>,
               <<3, 30, 4, 45>>, <<10, 30, 87, 45>> }

PageWidths == {600}
PageHeights == {45, 100}

(* the lists of at most n distinct elements of S *)
ListsOf(S, n) ==
    { s \in UNION { [1..m -> S] : m \in 0..n } :
        \A a, b \in 1..Len(s) : a # b => s[a] # s[b] }

----------------------------------------------------------------------------
(* State machine.  pc is the position of the one caller: "idle" before a    *)
(* call, the pp_* and cv_* positions inside process_page, "done" after it   *)
(* returned, "fs_done" after a direct call of find_split_x returned.        *)

Init ==
    /\ pc = "idle"
    /\ raw_items = <<>>
    /\ items0 = <<>>
    /\ page_width = 0
    /\ page_height = 0
    /\ split_x = None
    /\ lines = <<>>
    /\ current_line = <<>>
    /\ i = 0
    /\ global_avg_h = <<20, 1>>
    /\ blocks = <<>>
    /\ current_block_lines = <<>>
    /\ k = 0
    /\ ret = None
    /\ boxes = <<>>
    /\ fs_ret = None

(* a direct call ColumnDetector.find_split_x(boxes, page_width, page_height) *)
CallFindSplitX ==
    /\ pc = "idle"
    /\ \E bs \in ListsOf(BoxPool, MaxBoxes), pw \in PageWidths, ph \in PageHeights :
          /\ boxes' = bs
          /\ page_width' = pw
          /\ page_height' = ph
          /\ fs_ret' = find_split_x(bs, pw, ph)
    /\ pc' = "fs_done"
    /\ UNCHANGED <<raw_items, items0, split_x, lines, current_line, i,
                   global_avg_h, blocks, current_block_lines, k, ret>>

(* the caller builds a list and calls process_page(raw_items, w, h) *)
CallProcessPage ==
    /\ pc = "idle"
    /\ \E items \in ListsOf(Pool, MaxItems), pw \in PageWidths, ph \in PageHeights :
          /\ raw_items' = items
          /\ items0' = items
          /\ page_width' = pw
          /\ page_height' = ph
    /\ pc' = "pp_entry"
    /\ UNCHANGED <<split_x, lines, current_line, i, global_avg_h, blocks,
                   current_block_lines, k, ret, boxes, fs_ret>>

(* if not raw_items: return [], None *)
ReturnEmpty ==
    /\ pc = "pp_entry"
    /\ raw_items = <<>>
    /\ ret' = [blocks |-> <<>>, split_x |-> None]
    /\ pc' = "done"
    /\ UNCHANGED <<raw_items, items0, page_width, page_height, split_x, lines,
                   current_line, i, global_avg_h, blocks, current_block_lines,
                   k, boxes, fs_ret>>

(* 1. Detect Split Line *)
DetectSplit ==
    /\ pc = "pp_entry"
    /\ raw_items # <<>>
    /\ split_x' = find_split_x(BoxesOf(raw_items), page_width, page_height)
    /\ pc' = "pp_sort"
    /\ UNCHANGED <<raw_items, items0, page_width, page_height, lines,
                   current_line, i, global_avg_h, blocks, current_block_lines,
                   k, ret, boxes, fs_ret>>

(* raw_items.sort(key=y0); lines = []; current_line = [] *)
SortItems ==
    /\ pc = "pp_sort"
    /\ raw_items' = SortedItems(raw_items)
    /\ lines' = <<>>
    /\ current_line' = <<>>
    /\ i' = 1
    /\ pc' = "pp_lines"
    /\ UNCHANGED <<items0, page_width, page_height, split_x, global_avg_h,
                   blocks, current_block_lines, k, ret, boxes, fs_ret>>

(* one iteration of "for item in raw_items" *)
LineStep ==
    /\ pc = "pp_lines"
    /\ i <= Len(raw_items)
    /\ LET st == LineIter([lines |-> lines, current_line |-> current_line],
                          raw_items[i], split_x)
       IN  /\ lines' = st.lines
           /\ current_line' = st.current_line
    /\ i' = i + 1
    /\ UNCHANGED <<pc, raw_items, items0, page_width, page_height, split_x,
                   global_avg_h, blocks, current_block_lines, k, ret, boxes,
                   fs_ret>>

(* the loop is over: flush the open line, call _cluster_vertical *)
LinesDone ==
    /\ pc = "pp_lines"
    /\ i > Len(raw_items)
    /\ lines' = LineFlush([lines |-> lines, current_line |-> current_line])
    /\ pc' = "cv_entry"
    /\ UNCHANGED <<raw_items, items0, page_width, page_height, split_x,
                   current_line, i, global_avg_h, blocks, current_block_lines,
                   k, ret, boxes, fs_ret>>

(* _cluster_vertical up to its loop: lines.sort(key=y0), global_avg_h *)
ClusterStart ==
    /\ pc = "cv_entry"
    /\ lines # <<>>
    /\ lines' = SortByKey(lines, 2)
    /\ global_avg_h' = GlobalAvgH(SortByKey(lines, 2))
    /\ blocks' = <<>>
    /\ current_block_lines' = <<>>
    /\ k' = 1
    /\ pc' = "cv_loop"
    /\ UNCHANGED <<raw_items, items0, page_width, page_height, split_x,
                   current_line, i, ret, boxes, fs_ret>>

(* one iteration of "for line in lines" *)
BlockStep ==
    /\ pc = "cv_loop"
    /\ k <= Len(lines)
    /\ LET st == BlockIter([blocks |-> blocks,
                            current_block_lines |-> current_block_lines],
                           lines[k], split_x, global_avg_h)
       IN  /\ blocks' = st.blocks
           /\ current_block_lines' = st.current_block_lines
    /\ k' = k + 1
    /\ UNCHANGED <<pc, raw_items, items0, page_width, page_height, split_x,
                   lines, current_line, i, global_avg_h, ret, boxes, fs_ret>>

(* flush the open block, return blocks; process_page returns them with split_x *)
ClusterDone ==
    /\ pc = "cv_loop"
    /\ k > Len(lines)
    /\ blocks' = BlockFlush([blocks |-> blocks,
                             current_block_lines |-> current_block_lines])
    /\ ret' = [blocks |-> blocks', split_x |-> split_x]
    /\ pc' = "done"
    /\ UNCHANGED <<raw_items, items0, page_width, page_height, split_x, lines,
                   current_line, i, global_avg_h, current_block_lines, k,
                   boxes, fs_ret>>

Next ==
    \/ CallFindSplitX
    \/ CallProcessPage
    \/ ReturnEmpty
    \/ DetectSplit
    \/ SortItems
    \/ LineStep
    \/ LinesDone
    \/ ClusterStart
    \/ BlockStep
    \/ ClusterDone

Spec == Init /\ [][Next]_vars

----------------------------------------------------------------------------
(* Vocabulary of the properties *)

(* the fragments of a Line, and of a Block (those of its lines, in order) *)
RECURSIVE FragsOfLines(_)
FragsOfLines(ls) == IF ls = <<>> THEN <<>> ELSE ls[1].of \o FragsOfLines(Tail(ls))

FragsOfBlock(b) == FragsOfLines(b.of)

(* what the caller sees of a Line or Block: its text and its box *)
Visible(xs) == [j \in 1..Len(xs) |-> [text |-> xs[j].text, box |-> xs[j].box]]

Range(s) == {s[j] : j \in 1..Len(s)}

(* the calls of find_split_x visible in the state: arguments and result *)
DetectorCalls ==
    IF pc = "fs_done"
    THEN {[bs |-> boxes, r |-> fs_ret]}
    ELSE IF pc = "pp_sort"
         THEN {[bs |-> BoxesOf(raw_items), r |-> split_x]}
         ELSE {}

(* A lies left of the split beyond the buffer, B right of it beyond the buffer *)
FullySeparated(A, B, sp) ==
    LtSplit(A.box[3], sp, 0 - buff) /\ GtSplit(B.box[1], sp, buff)

NoSeparatedPair(frags, sp) ==
    \A A, B \in Range(frags) : ~FullySeparated(A, B, sp)

(* C1: when a split was detected, no Line and no Block holds two fragments  *)
(* that lie on opposite sides of the split beyond the 5-unit buffer.        *)
C1_BarrierInviolable ==
    split_x # None =>
        /\ \A l \in Range(lines) : NoSeparatedPair(l.of, split_x)
        /\ \A b \in Range(blocks) : NoSeparatedPair(FragsOfBlock(b), split_x)

Contains(text, piece) == \E j \in 1..Len(text) : text[j] = piece

SpecExampleInput ==
    << Frag("Name", <<10, 10, 80, 25>>), Frag("Title", <<10, 30, 90, 45>>),
       Frag("Skills", <<320, 10, 400, 25>>) >>

(* C2: for the spec's example (Name, Title, Skills on a page 600 wide and   *)
(* at least 45 high) process_page returns a split and exactly two blocks,   *)
(* one holding Name and Title, the other holding only Skills.               *)
C2_SpecExample ==
    (pc = "done" /\ items0 = SpecExampleInput /\ page_width = 600 /\ page_height >= 45) =>
        /\ ret.split_x # None
        /\ Len(ret.blocks) = 2
        /\ \E a, b \in 1..Len(ret.blocks) :
              /\ a # b
              /\ Contains(ret.blocks[a].text, "Name")
              /\ Contains(ret.blocks[a].text, "Title")
              /\ ret.blocks[b].text = <<"Skills">>

(* C3: the text of every Block lists its Lines in the order they were       *)
(* merged (ascending y0), joined by newlines.                               *)
C3_BlockTextInMergeOrder ==
    \A b \in Range(blocks) : b.text = Join(TextsOf(b.of), NL)

(* box is exactly (min x0, min y0, max x1, max y1) over the boxes bs *)
IsUnionOf(box, bs) ==
    /\ \A c \in 1..2 : (\E j \in 1..Len(bs) : box[c] = bs[j][c])
                       /\ (\A j \in 1..Len(bs) : box[c] <= bs[j][c])
    /\ \A c \in 3..4 : (\E j \in 1..Len(bs) : box[c] = bs[j][c])
                       /\ (\A j \in 1..Len(bs) : box[c] >= bs[j][c])

Inside(inner, outer) ==
    /\ outer[1] <= inner[1] /\ outer[2] <= inner[2]
    /\ inner[3] <= outer[3] /\ inner[4] <= outer[4]

(* C4: the box of every Line and Block is exactly the union of the boxes of *)
(* its constituents, so each fragment box lies inside the box of its Line   *)
(* and of its Block.                                                        *)
C4_UnionCorrect ==
    /\ \A l \in Range(lines) :
          /\ IsUnionOf(l.box, BoxesOf(l.of))
          /\ \A f \in Range(l.of) : Inside(f.box, l.box)
    /\ \A b \in Range(blocks) :
          /\ IsUnionOf(b.box, BoxesOf(b.of))
          /\ IsUnionOf(b.box, BoxesOf(FragsOfBlock(b)))
          /\ \A f \in Range(FragsOfBlock(b)) : Inside(f.box, b.box)

(* a block of two lines of which one has two fragments, none of them equal  *)
(* to the union                                                             *)
C4_Witness ==
    /\ pc = "done"
    /\ \E b \in Range(ret.blocks) :
          /\ Len(b.of) >= 2
          /\ \E l \in Range(b.of) : Len(l.of) >= 2 /\ \A f \in Range(l.of) : f.box # l.box
          /\ \A l \in Range(b.of) : l.box # b.box

NonDecreasingY0(xs) ==
    \A a, b \in 1..Len(xs) : a < b => xs[a].box[2] <= xs[b].box[2]

(* C5: the Lines formed by the line pass are in non-decreasing order of     *)
(* their box y0, and so are the Blocks process_page returns.                *)
C5_OutputOrder ==
    /\ pc \in {"pp_lines", "cv_entry"} => NonDecreasingY0(lines)
    /\ pc = "done" => NonDecreasingY0(ret.blocks)

(* lines and blocks whose order is not the order of the caller's list *)
C5_Witness ==
    /\ pc = "done"
    /\ Len(lines) >= 2
    /\ Len(ret.blocks) >= 2
    /\ ret.blocks[1].box[2] < ret.blocks[2].box[2]
    /\ \E a, b \in 1..Len(items0) : a < b /\ items0[a].box[2] > items0[b].box[2]

Perms(n) == {f \in [1..n -> 1..n] : \A a, b \in 1..n : a # b => f[a] # f[b]}

(* C6: the text of every Line is its fragments' texts joined by one space   *)
(* in ascending order of fragment x0.                                       *)
C6_LineTextOrder ==
    \A l \in Range(lines) :
        \E f \in Perms(Len(l.of)) :
            LET o == [j \in 1..Len(l.of) |-> l.of[f[j]]]
            IN  /\ \A a, b \in 1..Len(o) : a < b => o[a].box[1] <= o[b].box[1]
                /\ l.text = Join(TextsOf(o), " ")

(* a line whose fragments were appended in an order that is not ascending x0 *)
C6_Witness ==
    \E l \in Range(lines) :
        \E a, b \in 1..Len(l.of) : a < b /\ l.of[a].box[1] > l.of[b].box[1]

(* the maximal runs <<a, b>> of free bins a..b-1 inside the search window,  *)
(* cut at the window's ends                                                 *)
MaximalRuns(occ) ==
    LET W == search_start..(search_end - 1)
        starts == {a \in W : a \notin occ /\ (a = search_start \/ (a - 1) \in occ)}
        ends == {b \in (search_start + 1)..search_end :
                    (b - 1) \notin occ /\ (b = search_end \/ b \in occ)}
    IN  {r \in starts \X ends : r[1] < r[2] /\ \A c \in r[1]..(r[2] - 1) : c \notin occ}

(* r equals (a + (b - a) / 2) / bins * pw *)
IsMidpointOf(r, run, pw) ==
    r # None /\ r[1] * 2 * bins = (2 * run[1] + (run[2] - run[1])) * pw * r[2]

(* C7: find_split_x returns a split iff the widest maximal run of free bins *)
(* in the search window is wider than 2% of the bin count (exactly 2% gives *)
(* none), and the split is then the midpoint of a widest run, in page units.*)
C7_SplitAcceptance ==
    \A c \in DetectorCalls :
        LET runs == MaximalRuns(density_map(valid_boxes(c.bs, page_width, page_height),
                                            page_width))
            widest == {r \in runs : \A q \in runs : q[2] - q[1] <= r[2] - r[1]}
        IN  /\ c.r # None <=> \E r \in widest : (r[2] - r[1]) * 100 > 2 * bins
            /\ c.r # None => \E r \in widest : IsMidpointOf(c.r, r, page_width)

(* a call that found a widest run of exactly 8 bins, one that found 9 *)
C7_Witness ==
    /\ pc = "fs_done"
    /\ fs_ret = None
    /\ \E r \in MaximalRuns(density_map(valid_boxes(boxes, page_width, page_height),
                                        page_width)) : r[2] - r[1] = 8

C7_WitnessAccepted ==
    /\ pc = "fs_done"
    /\ fs_ret # None
    /\ \E r \in MaximalRuns(density_map(valid_boxes(boxes, page_width, page_height),
                                        page_width)) :
          r[2] - r[1] = 9 /\ IsMidpointOf(fs_ret, r, page_width)

AllFullWidthInPage(bs, pw) ==
    /\ bs # <<>>
    /\ \A j \in 1..Len(bs) :
          /\ 0 <= bs[j][1] /\ bs[j][3] <= pw
          /\ (bs[j][3] - bs[j][1]) * 100 > 85 * pw

(* C8: on a non-empty input whose boxes all lie within [0, page_width] and  *)
(* are wider than 85% of it, find_split_x returns none.                     *)
C8_NoSplitFallback ==
    \A c \in DetectorCalls : AllFullWidthInPage(c.bs, page_width) => c.r = None

(* such a call, with a box below the header zone, returned *)
C8_Witness ==
    /\ pc = "fs_done"
    /\ AllFullWidthInPage(boxes, page_width)
    /\ \E j \in 1..Len(boxes) : ~IsHeader(boxes[j], page_height)
    /\ fs_ret = None

(* C9: find_split_x called with an empty list of boxes returns none. *)
C9_EmptyDetectNone ==
    (pc = "fs_done" /\ boxes = <<>>) => fs_ret = None

(* C10: process_page returns the same split and the same blocks (texts and  *)
(* boxes) for every permutation of the caller's list.                       *)
C10_OrderIrrelevant ==
    pc = "done" =>
        \A f \in Perms(Len(items0)) :
            LET r == process_page([j \in 1..Len(items0) |-> items0[f[j]]],
                                  page_width, page_height)
            IN  r.split_x = ret.split_x /\ Visible(r.blocks) = Visible(ret.blocks)

(* bin b is [b * pw / bins, (b + 1) * pw / bins); the box's x-extent is     *)
(* [x0, x1].  They overlap, and they overlap in more than a point.          *)
BinOverlaps(b, box, pw) == box[1] * bins < (b + 1) * pw /\ box[3] * bins >= b * pw
BinOverlapsProperly(b, box, pw) ==
    /\ box[1] < box[3]
    /\ box[1] * bins < (b + 1) * pw
    /\ box[3] * bins > b * pw

OutsidePage(box, pw) == box[3] < 0 \/ box[1] > pw

(* C11: every box with x0 <= x1 marks only bins of [0, bins) that overlap   *)
(* its x-extent; a box wholly left or wholly right of the page marks none.  *)
C11_OutOfRangeClamped ==
    \A c \in DetectorCalls :
        LET vb == valid_boxes(c.bs, page_width, page_height)
        IN  \A j \in 1..Len(vb) :
                vb[j][1] <= vb[j][3] =>
                    /\ marked_bins(vb[j], page_width) \subseteq
                          {b \in 0..(bins - 1) : BinOverlaps(b, vb[j], page_width)}
                    /\ OutsidePage(vb[j], page_width) => marked_bins(vb[j], page_width) = {}

(* C12: after the histogram is built, every bin that the x-extent of a      *)
(* retained box overlaps (in more than a point) is marked; so every         *)
(* retained box of positive width inside the page marks at least one bin.   *)
C12_HistogramCoverage ==
    \A c \in DetectorCalls :
        LET vb == valid_boxes(c.bs, page_width, page_height)
            occ == density_map(vb, page_width)
        IN  \A j \in 1..Len(vb) :
                /\ \A b \in 0..(bins - 1) :
                      BinOverlapsProperly(b, vb[j], page_width) => b \in occ
                /\ (0 <= vb[j][1] /\ vb[j][1] < vb[j][3] /\ vb[j][3] <= page_width)
                      => marked_bins(vb[j], page_width) # {}

Height(box) == box[4] - box[2]

(* the line merge rule in the claim's terms, for a split sp or None *)
C13_Overlap(last, cur) ==
    Max2(0, Min2(last.box[4], cur.box[4]) - Max2(last.box[2], cur.box[2]))

C13_RatioAbove04(last, cur) ==
    LET mh == Min2(Height(last.box), Height(cur.box))
    IN  IF mh = 0 THEN FALSE ELSE 10 * C13_Overlap(last, cur) > 4 * mh

C13_EntirelyLeft(f, sp) == f.box[3] * sp[2] < sp[1] + buff * sp[2]
C13_EntirelyRight(f, sp) == f.box[1] * sp[2] > sp[1] - buff * sp[2]

C13_Crossing(last, cur, sp) ==
    /\ sp # None
    /\ \/ C13_EntirelyLeft(last, sp) /\ C13_EntirelyRight(cur, sp)
       \/ C13_EntirelyRight(last, sp) /\ C13_EntirelyLeft(cur, sp)

C13_Rule(last, cur, sp) ==
    /\ C13_RatioAbove04(last, cur)
    /\ cur.box[1] - last.box[3] < 50
    /\ ~C13_Crossing(last, cur, sp)

C13_Step ==
    (pc = "pp_lines" /\ i <= Len(raw_items) /\ current_line # <<>> /\ i' = i + 1) =>
        LET last == current_line[Len(current_line)]
            cur == raw_items[i]
        IN  IF C13_Rule(last, cur, split_x)
            THEN current_line' = Append(current_line, cur) /\ lines' = lines
            ELSE /\ current_line' = <<cur>>
                 /\ Len(lines') = Len(lines) + 1
                 /\ SubSeq(lines', 1, Len(lines)) = lines
                 /\ lines'[Len(lines')].of = current_line

C13_ZeroHeightAlone ==
    /\ \A l \in Range(lines') :
          (\E f \in Range(l.of) : Height(f.box) = 0) => Len(l.of) = 1
    /\ (\E f \in Range(current_line') : Height(f.box) = 0) => Len(current_line') = 1

(* C13: in the line pass a fragment joins the current line iff, against the *)
(* last fragment of that line, overlap ratio > 0.4, horizontal gap < 50 and *)
(* no barrier crossing; otherwise the line is finalized and the fragment    *)
(* starts a new one.  A zero-height fragment is always alone in its line.   *)
C13_LineMergeRule == [][C13_Step /\ C13_ZeroHeightAlone]_vars

(* a line took a second fragment, and the zero-height fragment that came   *)
(* next, inside the y-range of that line's last fragment and less than 50   *)
(* from it, was refused and is alone in the open line                       *)
C13_Witness ==
    /\ pc = "pp_lines"
    /\ lines # <<>>
    /\ Len(current_line) = 1
    /\ Height(current_line[1].box) = 0
    /\ LET prev == lines[Len(lines)].of
           last == prev[Len(prev)]
       IN  /\ Len(prev) >= 2
           /\ last.box[2] <= current_line[1].box[2]
           /\ current_line[1].box[2] <= last.box[4]
           /\ current_line[1].box[1] - last.box[3] < 50
           /\ ~C13_Crossing(last, current_line[1], split_x)

(* the horizontal center of the box lies left of the split *)
C14_CenterIsLeft(box, sp) == (box[1] + box[3]) * sp[2] < 2 * sp[1]

C14_SameSide(ls, sp) ==
    \A a, b \in Range(ls) : C14_CenterIsLeft(a.box, sp) = C14_CenterIsLeft(b.box, sp)

(* C14: when a split is present, the lines of every Block have their        *)
(* centers on one side of it, and the center of the union box of the open   *)
(* block lies on the side of each line already in it.                       *)
C14_BlockSide ==
    split_x # None =>
        /\ \A b \in Range(blocks) : C14_SameSide(b.of, split_x)
        /\ C14_SameSide(current_block_lines, split_x)
        /\ \A l \in Range(current_block_lines) :
              C14_CenterIsLeft(merge_boxes(BoxesOf(current_block_lines)), split_x)
                  = C14_CenterIsLeft(l.box, split_x)

(* a block of two lines was returned although a line of the other side, as  *)
(* close and as aligned, was the next candidate, and stands in another block *)
C14_Witness ==
    /\ pc = "done"
    /\ split_x # None
    /\ \E a \in 1..Len(ret.blocks) :
          /\ Len(ret.blocks[a].of) >= 2
          /\ \E b \in 1..Len(ret.blocks) :
                /\ b # a
                /\ C14_CenterIsLeft(ret.blocks[a].box, split_x)
                      # C14_CenterIsLeft(ret.blocks[b].box, split_x)
                /\ \E l \in Range(ret.blocks[a].of), m \in Range(ret.blocks[b].of) :
                      IsClose(l, m, global_avg_h) /\ IsAligned(l, m)

(* the block merge rule in the claim's terms; the global average line       *)
(* height is total / count over all the lines ls                            *)
RECURSIVE C15_TotalHeight(_, _)
C15_TotalHeight(ls, n) ==
    IF n = 0 THEN 0 ELSE Height(ls[n].box) + C15_TotalHeight(ls, n - 1)

C15_Dominant(prev, cur) == Max2(Height(prev.box), Height(cur.box))

(* dominant height below the average: m = 1.5, else m = 2.0 *)
C15_BelowAverage(prev, cur, ls) ==
    C15_Dominant(prev, cur) * Len(ls) < C15_TotalHeight(ls, Len(ls))

(* (cur.y0 - prev.y1) < max(dominant * m, 5.0), both sides doubled *)
C15_Close(prev, cur, ls) ==
    LET twice_m == IF C15_BelowAverage(prev, cur, ls) THEN 3 ELSE 4
    IN  2 * (cur.box[2] - prev.box[4]) < Max2(C15_Dominant(prev, cur) * twice_m, 10)

C15_Aligned(prev, cur) ==
    \/ Abs(cur.box[1] - prev.box[1]) < 80
    \/ Abs(cur.box[3] - prev.box[3]) < 80

C15_Crossing(block_lines, cur, sp) ==
    /\ sp # None
    /\ C14_CenterIsLeft(merge_boxes(BoxesOf(block_lines)), sp)
          # C14_CenterIsLeft(cur.box, sp)

C15_Rule(block_lines, cur, ls, sp) ==
    /\ C15_Close(block_lines[Len(block_lines)], cur, ls)
    /\ C15_Aligned(block_lines[Len(block_lines)], cur)
    /\ ~C15_Crossing(block_lines, cur, sp)

C15_Step ==
    (pc = "cv_loop" /\ k <= Len(lines) /\ current_block_lines # <<>> /\ k' = k + 1) =>
        IF C15_Rule(current_block_lines, lines[k], lines, split_x)
        THEN current_block_lines' = Append(current_block_lines, lines[k])
             /\ blocks' = blocks
        ELSE /\ current_block_lines' = <<lines[k]>>
             /\ Len(blocks') = Len(blocks) + 1
             /\ SubSeq(blocks', 1, Len(blocks)) = blocks
             /\ blocks'[Len(blocks')].of = current_block_lines

(* C15: in _cluster_vertical a line joins the current block iff, against    *)
(* the last line of that block, the vertical gap is below                   *)
(* max(dominant height * m, 5.0) (m = 1.5 below the global average height,  *)
(* else 2.0), an edge is aligned within 80 and there is no barrier          *)
(* crossing; otherwise the block is finalized and the line starts a new one.*)
C15_BlockMergeRule == [][C15_Step]_vars

(* a line was refused only because m = 1.5 applied: its gap lies between    *)
(* 1.5 and 2.0 times the dominant height, an edge is aligned and the sides  *)
(* agree                                                                    *)
C15_Witness ==
    /\ pc = "cv_loop"
    /\ blocks # <<>>
    /\ Len(current_block_lines) = 1
    /\ LET prev_lines == blocks[Len(blocks)].of
           prev == prev_lines[Len(prev_lines)]
           cur == current_block_lines[1]
           gap == cur.box[2] - prev.box[4]
       IN  /\ C15_BelowAverage(prev, cur, lines)
           /\ 2 * gap >= 3 * C15_Dominant(prev, cur)
           /\ 2 * gap < 4 * C15_Dominant(prev, cur)
           /\ C15_Aligned(prev, cur)
           /\ ~C15_Crossing(prev_lines, cur, split_x)

(* two zero-height lines 3 apart were merged: only the floor of 5.0 makes   *)
(* the gap small enough                                                     *)
C15_WitnessFloor ==
    /\ pc = "cv_loop"
    /\ \E a \in 1..(Len(current_block_lines) - 1) :
          /\ C15_Dominant(current_block_lines[a], current_block_lines[a + 1]) = 0
          /\ current_block_lines[a + 1].box[2] - current_block_lines[a].box[4] > 0

(* C16: when process_page has returned, the caller's list holds the same    *)
(* fragments in the same order as before the call, each unchanged.          *)
C16_InputUnmodified ==
    pc = "done" => raw_items = items0

Count(x, seq) == Cardinality({j \in 1..Len(seq) : seq[j] = x})

SameMultiset(s, t) ==
    /\ Len(s) = Len(t)
    /\ \A x \in Range(s) \cup Range(t) : Count(x, s) = Count(x, t)

RECURSIVE AllText(_)
AllText(bs) == IF bs = <<>> THEN <<>> ELSE bs[1].text \o AllText(Tail(bs))

RECURSIVE AllFrags(_)
AllFrags(bs) == IF bs = <<>> THEN <<>> ELSE FragsOfBlock(bs[1]) \o AllFrags(Tail(bs))

(* the fragment texts in the texts of the blocks: the pieces between the    *)
(* separators                                                               *)
FragmentTexts(bs) == SelectSeq(AllText(bs), LAMBDA piece : piece \notin {" ", NL})

RECURSIVE InputTexts(_)
InputTexts(items) ==
    IF items = <<>> THEN <<>> ELSE items[1].text \o InputTexts(Tail(items))

(* C17: for a non-empty input the blocks returned hold every input fragment *)
(* exactly once: the fragment texts in the block texts are the input's      *)
(* texts as a multiset, and so are the fragments of the lines of the blocks.*)
C17_Conservation ==
    (pc = "done" /\ items0 # <<>>) =>
        /\ SameMultiset(FragmentTexts(ret.blocks), InputTexts(items0))
        /\ SameMultiset(AllFrags(ret.blocks), items0)

(* three fragments came back in two blocks, two of them in one line, the    *)
(* last block being the one flushed after the loop                          *)
C17_Witness ==
    /\ pc = "done"
    /\ Len(items0) = 3
    /\ Len(ret.blocks) = 2
    /\ \E b \in Range(ret.blocks) : \E l \in Range(b.of) : Len(l.of) = 2

====
